---- MODULE Spec2Model ----
(***************************************************************************)
(* GUI_power_supply: the PowerSupply driver (drivers/drv_power_supply.cpp) *)
(* and the main window with its background Worker                          *)
(* (GUI_MAIN_POWER_SUPPLY.cpp).                                            *)
(*                                                                         *)
(* Two threads run the driver: "fg", the GUI thread that executes the      *)
(* window's handlers, and "poller", the thread that executes               *)
(* Worker::mainWork.  A driver call is split at its accesses to what the   *)
(* two threads share (the instrument handle, the serial line): the isOpen  *)
(* check, the viWrite of sendCommand, and the viRead.  The code holds no   *)
(* lock, so any two such steps of the two threads may interleave.          *)
(*                                                                         *)
(* double values are fixed-point integers in units of 1/Scale; lines on    *)
(* the wire are strings.                                                   *)
(***************************************************************************)
EXTENDS Integers, Sequences, FiniteSets, TLC

VARIABLES
    instrument,        \* PowerSupply::instrument (ViSession)
    defaultRM,         \* PowerSupply::defaultRM (ViSession)
    port,              \* PowerSupply::port
    psDeleted,         \* the PowerSupply object has been deleted
    live,              \* VISA sessions acquired and not yet released
    rx,                \* response lines the device has sent, not yet read
    devOn,             \* the device's output state
    devVoltage,        \* the parameter of the last VOLT command the device took
    devAnswers,        \* whether the device answers a line it does not know
    call,              \* per thread: the driver call it is executing
    fgH,               \* the handler the GUI thread is executing
    fgPc,              \* the GUI thread's position in that handler
    lastSavedVoltage,  \* MainWindow::lastSavedVoltage
    threadDeleted,     \* workerThread has been deleted
    uaf,               \* a deleted object has been used
    pPc,               \* the worker thread's position in mainWork
    stopFlag,          \* Worker::stopFlag
    oldCurrent,        \* Worker::oldCurrent
    newCurrent,        \* Worker::newCurrent
    emitted,           \* the currentChanged signals emitted, in order
    cyc                \* the last finished cycle of mainWork: what it read and did

vars == <<instrument, defaultRM, port, psDeleted, live, rx, devOn, devVoltage,
          devAnswers, call, fgH, fgPc, lastSavedVoltage,
          threadDeleted, uaf, pPc, stopFlag, oldCurrent, newCurrent, emitted,
          cyc>>

drvVars == <<instrument, defaultRM, port, live>>
devVars == <<rx, devOn, devVoltage>>
winVars == <<fgH, fgPc, lastSavedVoltage, threadDeleted>>
workerVars == <<pPc, stopFlag, oldCurrent, newCurrent, emitted, cyc>>

---------------------------------------------------------------------------
(* Bounds of the model *)

\* lines the serial receive buffer holds; a further response is dropped
MaxRx == 2
\* VISA sessions that may be live at once; open is not started beyond it
MaxLive == 4
\* currentChanged signals recorded
MaxEmitted == 2

(* Program constants *)

VI_NULL == 0
\* the value of a ViSession member no constructor initialised
Garbage == -1
\* sizeof(commandBuffer) in sendCommand
CommandBufferSize == 30
\* digits std::to_string(double) prints after the point
Scale == 1000000

Threads == {"fg", "poller"}

\* the port texts tried: empty, too short, and two well-formed ones
Ports == {"", "COM", "COM3", "COM4"}
\* the voltages the user enters, in units of 1/Scale
Voltages == {0, 2500000}
\* what the device measures as its output current
CurrentReadings == {"1.0", "2.0"}
\* what a device that answers unknown lines answers them with
UnknownAnswers == {"ERR", "1.5"}

ERR_SUCCESS == "ERR_SUCCESS"
ERR_DEVICE_NOT_CONNECTED == "ERR_DEVICE_NOT_CONNECTED"
ERR_OPERATION_FAILED == "ERR_OPERATION_FAILED"

---------------------------------------------------------------------------
(* Text *)

Digits == "0123456789"

IsDigit(c) == \E i \in 1..10 : SubSeq(Digits, i, i) = c

DigitVal(c) == (CHOOSE i \in 1..10 : SubSeq(Digits, i, i) = c) - 1

Char(s, i) == SubSeq(s, i, i)

RECURSIVE SkipSpace(_, _)
\* the index of the first character of s at or after i that is no white space
SkipSpace(s, i) ==
    IF i <= Len(s) /\ Char(s, i) \in {" ", "\n", "\t", "\r"}
    THEN SkipSpace(s, i + 1)
    ELSE i

RECURSIVE DigitsEnd(_, _)
\* the index after the run of digits of s that starts at i
DigitsEnd(s, i) ==
    IF i <= Len(s) /\ IsDigit(Char(s, i)) THEN DigitsEnd(s, i + 1) ELSE i

RECURSIVE DigitsValue(_, _, _)
\* the number the digits s[i..j-1] spell
DigitsValue(s, i, j) ==
    IF j <= i THEN 0
    ELSE 10 * DigitsValue(s, i, j - 1) + DigitVal(Char(s, j - 1))

RECURSIVE Pow10(_)
Pow10(n) == IF n = 0 THEN 1 ELSE 10 * Pow10(n - 1)

\* atof: white space, a sign, digits, a point, digits; the longest such prefix
\* is converted and 0.0 is returned when there is none.  Exponents, hex, inf
\* and nan are not modelled; digits beyond 1/Scale are cut.
atof(s) ==
    LET a    == SkipSpace(s, 1)
        neg  == a <= Len(s) /\ Char(s, a) = "-"
        b    == IF a <= Len(s) /\ Char(s, a) \in {"-", "+"} THEN a + 1 ELSE a
        c    == DigitsEnd(s, b)
        dot  == c <= Len(s) /\ Char(s, c) = "."
        d    == IF dot THEN DigitsEnd(s, c + 1) ELSE c
        nfr  == IF dot THEN d - (c + 1) ELSE 0
        kept == IF nfr > 6 THEN 6 ELSE nfr
        ip   == DigitsValue(s, b, c)
        fp   == IF dot THEN DigitsValue(s, c + 1, c + 1 + kept) ELSE 0
        mag  == ip * Scale + fp * Pow10(6 - kept)
    IN  IF c = b /\ nfr = 0 THEN 0 ELSE IF neg THEN 0 - mag ELSE mag

RECURSIVE NatStr(_)
\* the decimal digits of a natural number
NatStr(n) ==
    IF n < 10 THEN Char(Digits, n + 1)
    ELSE NatStr(n \div 10) \o Char(Digits, (n % 10) + 1)

RECURSIVE Pad(_, _)
\* s with zeros on its left, to n characters
Pad(s, n) == IF Len(s) >= n THEN s ELSE Pad("0" \o s, n)

\* std::to_string(double): "%f", six digits after the point
to_string(v) ==
    LET m == IF v < 0 THEN 0 - v ELSE v
    IN  (IF v < 0 THEN "-" ELSE "")
        \o NatStr(m \div Scale) \o "." \o Pad(NatStr(m % Scale), 6)

---------------------------------------------------------------------------
(* The command table and the command line *)

\* PowerSupply::psCommands, as the header initialises it
psCommands ==
    [k \in {"writeVoltage", "setCurrent", "writeMaxCurrent", "readVoltage",
            "readCurrent", "getMaxCurrent", "isOn", "turnOn", "turnOff"} |->
        CASE k = "writeVoltage"    -> "VOLT"
          [] k = "setCurrent"      -> "CURR"
          [] k = "writeMaxCurrent" -> "IMAX"
          [] k = "readVoltage"     -> "MEAS:VOLT?"
          [] k = "readCurrent"     -> "MEAS:CURR?"
          [] k = "getMaxCurrent"   -> "IMAX?"
          [] k = "isOn"            -> "OUTP?"
          [] k = "turnOn"          -> "OUTP ON"
          [] k = "turnOff"         -> "OUTP OFF"]

\* psCommands[key]: std::map::operator[] gives the mapped string, and for a
\* key the map does not hold it inserts and gives the empty string
psCommandsAt(key) ==
    IF key \in DOMAIN psCommands THEN psCommands[key] ELSE ""

\* the snprintf calls of sendCommand: the line, cut to what commandBuffer holds
commandBuffer(command, value) ==
    LET full == IF value = "" THEN command \o "\n"
                ELSE command \o " " \o value \o "\n"
    IN  IF Len(full) > CommandBufferSize - 1
        THEN SubSeq(full, 1, CommandBufferSize - 1)
        ELSE full

---------------------------------------------------------------------------
(* The device on the serial line *)

NoResp == [line |-> "", by |-> "none", op |-> "none"]

HasPrefix(s, p) == Len(s) >= Len(p) /\ SubSeq(s, 1, Len(p)) = p

KnownLines == {"OUTP?", "MEAS:VOLT?", "MEAS:CURR?", "OUTP ON", "OUTP OFF"}

\* the device's output state after it took the line
DevOnAfter(body) ==
    IF body = "OUTP ON" THEN TRUE
    ELSE IF body = "OUTP OFF" THEN FALSE
    ELSE devOn

\* the device's voltage setting after it took the line
DevVoltageAfter(body) ==
    IF HasPrefix(body, "VOLT ") THEN SubSeq(body, 6, Len(body))
    ELSE devVoltage

\* the response lines the device may send for the line; none for a command
\* that is no query
DeviceReplies(body) ==
    IF body = "OUTP?" THEN {IF devOn THEN "1" ELSE "0"}
    ELSE IF body = "MEAS:VOLT?" THEN {devVoltage}
    ELSE IF body = "MEAS:CURR?" THEN CurrentReadings
    ELSE IF body \in KnownLines \/ HasPrefix(body, "VOLT ") THEN {}
    ELSE IF devAnswers THEN UnknownAnswers
    ELSE {}

\* the receive buffer after a response arrived
Arrive(q, r) == IF Len(q) < MaxRx THEN Append(q, r) ELSE q

\* viWrite(instrument, line) by thread t: the status, and what the device
\* made of the line.  A write on a handle that is no live session fails; a
\* write on a live session may fail (the line is lost) or deliver the line.
viWrite(t, line) ==
    LET fail == [status |-> "VI_ERROR", rx |-> rx, devOn |-> devOn,
                 devVoltage |-> devVoltage]
        ended == Len(line) > 0 /\ Char(line, Len(line)) = "\n"
        body == IF ended THEN SubSeq(line, 1, Len(line) - 1) ELSE line
        took == [status |-> "VI_SUCCESS", rx |-> rx,
                 devOn |-> DevOnAfter(body),
                 devVoltage |-> DevVoltageAfter(body)]
    IN  IF instrument \notin live THEN {fail}
        ELSE IF ~ended
        THEN {fail, [fail EXCEPT !.status = "VI_SUCCESS"]}
        ELSE IF DeviceReplies(body) = {} THEN {fail, took}
        ELSE {fail} \cup
             {[took EXCEPT !.rx = Arrive(rx, [line |-> r, by |-> t,
                                             op |-> call[t].op])] :
                r \in DeviceReplies(body)}

\* viRead(instrument, buffer): the next line of the receive buffer; it fails
\* (time-out, or no session) when there is none
viRead ==
    IF instrument \in live /\ rx # <<>>
    THEN [status |-> "VI_SUCCESS", resp |-> Head(rx), rx |-> Tail(rx)]
    ELSE [status |-> "VI_ERROR", resp |-> NoResp, rx |-> rx]

---------------------------------------------------------------------------
(* PowerSupply: the session *)

\* the fields of the PowerSupply object and the sessions VISA holds for it
drv == [instrument |-> instrument, defaultRM |-> defaultRM, port |-> port,
        live |-> live, rx |-> rx]

SetDrv(s) ==
    /\ instrument' = s.instrument
    /\ defaultRM' = s.defaultRM
    /\ port' = s.port
    /\ live' = s.live
    /\ rx' = s.rx

\* a session handle VISA has not given out
Fresh(s) ==
    CHOOSE h \in 1..(MaxLive + 2) :
        /\ h \notin s.live \cup {s.instrument, s.defaultRM}
        /\ \A g \in 1..(h - 1) : g \in s.live \cup {s.instrument, s.defaultRM}

\* close() that releases the sessions and leaves the instrument handle set
close_keepsHandle(s) ==
    [instrument |-> s.instrument,
     defaultRM  |-> VI_NULL,
     port       |-> "",
     live       |-> s.live \ {s.instrument, s.defaultRM},
     rx         |-> IF s.instrument \in s.live THEN <<>> ELSE s.rx]

\* PowerSupply::close
close(s) ==
    [instrument |-> VI_NULL,
     defaultRM  |-> VI_NULL,
     port       |-> "",
     live       |-> s.live \ {s.instrument, s.defaultRM},
     rx         |-> IF s.instrument \in s.live THEN <<>> ELSE s.rx]

\* PowerSupply::isOpen() == ERR_SUCCESS
isOpen == instrument # VI_NULL

\* a port check that rejects the empty port only
invalidPort_emptyOnly(p) == p = ""

\* PowerSupply::open, its check of the port: empty, or shorter than 4
invalidPort(p) == p = "" \/ Len(p) < 4

\* a failure exit that returns without close()
err_open_noClose(s) == s

\* PowerSupply::open from the label err_open on: close(), then return err
err_open(s) == close(s)

\* PowerSupply::open(p): every outcome, as the error returned, the session
\* after it and the sessions the call acquired.  viOpenDefaultRM and viOpen
\* succeed or fail as VISA decides; a failing call leaves its output handle
\* as it was or clears it.
open(s, p) ==
    LET bad(x)  == [err |-> ERR_DEVICE_NOT_CONNECTED, s |-> err_open(x),
                    acq |-> x.live \ s.live]
        rm      == Fresh(s)
        gotRM   == [s EXCEPT !.defaultRM = rm, !.live = @ \cup {rm}]
        ins     == Fresh(gotRM)
        gotIns  == [gotRM EXCEPT !.instrument = ins, !.live = @ \cup {ins},
                                 !.rx = <<>>, !.port = p]
    IN  IF invalidPort(p) THEN {bad(s)}
        ELSE {bad(s), bad([s EXCEPT !.defaultRM = VI_NULL])}
             \cup {bad(gotRM), bad([gotRM EXCEPT !.instrument = VI_NULL])}
             \cup {[err |-> ERR_SUCCESS, s |-> gotIns, acq |-> {rm, ins}]}

\* PowerSupply::PowerSupply(p), on members no initialiser has set
PowerSupply(s, p) ==
    IF p = "" \/ Len(p) < 4 THEN {s}
    ELSE {o.s : o \in open([s EXCEPT !.port = p], p)}

---------------------------------------------------------------------------
(* PowerSupply: the commands.  call[t] is the call thread t executes: the    *)
(* operation, the position in it ("entry", "checked" after isOpen, "sent"   *)
(* after the write, "ret" at its return), the error it returns, its output  *)
(* parameter (val, state), the viWrite and viRead calls it made (nw, nr),   *)
(* the line it wrote and the response it read; for open and close, the      *)
(* port asked for (arg), the sessions the call acquired (acq) and the       *)
(* instrument handle it found (before).                                     *)

Idle == [op |-> "none", pos |-> "idle", arg |-> "", err |-> ERR_SUCCESS,
         val |-> 0, state |-> FALSE, wasOpen |-> FALSE, nw |-> 0, nr |-> 0,
         sent |-> "", resp |-> NoResp, acq |-> {}, before |-> VI_NULL]

\* thread t calls operation o; v is what its double parameter holds
Invoke(o, v) == [Idle EXCEPT !.op = o, !.pos = "entry", !.val = v]

\* thread t calls open(p)
InvokeOpen(p) == [Idle EXCEPT !.op = "open", !.pos = "entry", !.arg = p]

\* the call c after its isOpen check failed: it returns e
NotConnected(c, e) ==
    [c EXCEPT !.pos = "ret", !.err = e, !.wasOpen = FALSE]

\* the call c after its isOpen check passed
Connected(c) == [c EXCEPT !.pos = "checked", !.wasOpen = TRUE]

At(t, o, p) == call[t].op = o /\ call[t].pos = p

\* a step of thread t inside the driver that leaves the call as c
Step(t, c) ==
    /\ call' = [call EXCEPT ![t] = c]
    /\ uaf' = (uaf \/ psDeleted)
    /\ UNCHANGED <<instrument, defaultRM, port, live, psDeleted, devAnswers,
                   winVars, workerVars>>

\* PowerSupply::sendCommand: the error returned, the line written, and the
\* outcome of the viWrite
sendCommand(t, command, value) ==
    LET line == commandBuffer(command, value)
    IN  {[err  |-> IF w.status = "VI_SUCCESS" THEN ERR_SUCCESS
                   ELSE ERR_OPERATION_FAILED,
          sent |-> line,
          w    |-> w] : w \in viWrite(t, line)}

\* the call of thread t after its sendCommand returned s: an error ends the
\* call with ERR_OPERATION_FAILED, success moves it on to pos
AfterSend(t, s, pos) ==
    [call[t] EXCEPT !.nw = @ + 1, !.sent = s.sent,
                    !.err = IF s.err # ERR_SUCCESS THEN ERR_OPERATION_FAILED
                            ELSE ERR_SUCCESS,
                    !.pos = IF s.err # ERR_SUCCESS THEN "ret" ELSE pos]

Wrote(s) ==
    /\ rx' = s.w.rx
    /\ devOn' = s.w.devOn
    /\ devVoltage' = s.w.devVoltage

\* isOn that answers on an open session from what it knows, asking nothing
isOn_check_cached(t) ==
    /\ At(t, "isOn", "entry")
    /\ Step(t, IF ~isOpen
               THEN NotConnected([call[t] EXCEPT !.state = FALSE], ERR_DEVICE_NOT_CONNECTED)
               ELSE [call[t] EXCEPT !.state = devOn, !.wasOpen = TRUE,
                                    !.pos = "ret"])
    /\ UNCHANGED devVars

\* PowerSupply::isOn, to its isOpen check
isOn_check(t) ==
    /\ At(t, "isOn", "entry")
    /\ Step(t, IF ~isOpen
               THEN NotConnected([call[t] EXCEPT !.state = FALSE], ERR_DEVICE_NOT_CONNECTED)
               ELSE Connected([call[t] EXCEPT !.state = FALSE]))
    /\ UNCHANGED devVars

\* PowerSupply::isOn, its sendCommand
isOn_send(t) ==
    /\ At(t, "isOn", "checked")
    /\ \E s \in sendCommand(t, psCommandsAt("isOn"), "") :
          /\ Wrote(s)
          /\ Step(t, AfterSend(t, s, "sent"))

\* isOn whose failed viRead also closes the session
isOn_read_closing(t) ==
    /\ At(t, "isOn", "sent")
    /\ LET r == viRead
       IN  /\ IF r.status = "VI_SUCCESS"
              THEN rx' = r.rx /\ UNCHANGED drvVars
              ELSE SetDrv(close(drv))
           /\ call' = [call EXCEPT ![t] = [@ EXCEPT
                  !.nr = @ + 1, !.resp = r.resp, !.pos = "ret",
                  !.state = r.status = "VI_SUCCESS"
                            /\ Char(r.resp.line, 1) = "1",
                  !.err = IF r.status = "VI_SUCCESS"
                             /\ Char(r.resp.line, 1) \in {"0", "1"}
                          THEN ERR_SUCCESS ELSE ERR_OPERATION_FAILED]]
    /\ uaf' = (uaf \/ psDeleted)
    /\ UNCHANGED <<psDeleted, devOn, devVoltage, devAnswers, winVars,
                   workerVars>>

\* isOn that takes every first character other than '1' for "off"
isOn_read_lenient(t) ==
    /\ At(t, "isOn", "sent")
    /\ LET r == viRead
           c == Char(r.resp.line, 1)
       IN  /\ rx' = r.rx
           /\ Step(t, [call[t] EXCEPT
                  !.nr = @ + 1, !.resp = r.resp, !.pos = "ret",
                  !.state = r.status = "VI_SUCCESS" /\ c = "1",
                  !.err = IF r.status # "VI_SUCCESS" THEN ERR_OPERATION_FAILED
                          ELSE ERR_SUCCESS])
    /\ UNCHANGED <<devOn, devVoltage>>

\* PowerSupply::isOn, its viRead and the parse of buffer[0]
isOn_read(t) ==
    /\ At(t, "isOn", "sent")
    /\ LET r == viRead
           c == Char(r.resp.line, 1)
       IN  /\ rx' = r.rx
           /\ Step(t, [call[t] EXCEPT
                  !.nr = @ + 1, !.resp = r.resp, !.pos = "ret",
                  !.state = r.status = "VI_SUCCESS" /\ c = "1",
                  !.err = IF r.status # "VI_SUCCESS" THEN ERR_OPERATION_FAILED
                          ELSE IF c \in {"0", "1"} THEN ERR_SUCCESS
                          ELSE ERR_OPERATION_FAILED])
    /\ UNCHANGED <<devOn, devVoltage>>

\* PowerSupply::setVoltage, to its isOpen check
setVoltage_check(t) ==
    /\ At(t, "setVoltage", "entry")
    /\ Step(t, IF ~isOpen
               THEN NotConnected(call[t], ERR_DEVICE_NOT_CONNECTED)
               ELSE Connected(call[t]))
    /\ UNCHANGED devVars

\* PowerSupply::setVoltage, its sendCommand
setVoltage_send(t) ==
    /\ At(t, "setVoltage", "checked")
    /\ \E s \in sendCommand(t, psCommandsAt("setVoltage"),
                            to_string(call[t].val)) :
          /\ Wrote(s)
          /\ Step(t, AfterSend(t, s, "ret"))

\* PowerSupply::getVoltage, to its isOpen check
getVoltage_check(t) ==
    /\ At(t, "getVoltage", "entry")
    /\ Step(t, IF ~isOpen
               THEN NotConnected([call[t] EXCEPT !.val = 0], ERR_DEVICE_NOT_CONNECTED)
               ELSE Connected([call[t] EXCEPT !.val = 0]))
    /\ UNCHANGED devVars

\* PowerSupply::getVoltage, its sendCommand
getVoltage_send(t) ==
    /\ At(t, "getVoltage", "checked")
    /\ \E s \in sendCommand(t, psCommandsAt("getVoltage"), "") :
          /\ Wrote(s)
          /\ Step(t, AfterSend(t, s, "sent"))

\* PowerSupply::getVoltage, its viRead and atof
getVoltage_read(t) ==
    /\ At(t, "getVoltage", "sent")
    /\ LET r == viRead
       IN  /\ rx' = r.rx
           /\ Step(t, [call[t] EXCEPT
                  !.nr = @ + 1, !.resp = r.resp, !.pos = "ret",
                  !.val = IF r.status = "VI_SUCCESS" THEN atof(r.resp.line)
                          ELSE @,
                  !.err = IF r.status = "VI_SUCCESS" THEN ERR_SUCCESS
                          ELSE ERR_OPERATION_FAILED])
    /\ UNCHANGED <<devOn, devVoltage>>

\* getCurrent from the label ps_err_getCurrent on: every path that passed the
\* isOpen check runs through it, the successful one too
ps_err_getCurrent(current) == 0

\* PowerSupply::getCurrent, to its isOpen check
getCurrent_check(t) ==
    /\ At(t, "getCurrent", "entry")
    /\ Step(t, IF ~isOpen
               THEN NotConnected(call[t], ERR_DEVICE_NOT_CONNECTED)
               ELSE Connected(call[t]))
    /\ UNCHANGED devVars

\* PowerSupply::getCurrent, its sendCommand
getCurrent_send(t) ==
    /\ At(t, "getCurrent", "checked")
    /\ \E s \in sendCommand(t, psCommandsAt("getCurrent"), "") :
          /\ Wrote(s)
          /\ Step(t, LET c == AfterSend(t, s, "sent")
                     IN  IF c.pos = "ret"
                         THEN [c EXCEPT !.val = ps_err_getCurrent(@)]
                         ELSE c)

\* PowerSupply::getCurrent, its viRead, atof and return
getCurrent_read(t) ==
    /\ At(t, "getCurrent", "sent")
    /\ LET r == viRead
       IN  /\ rx' = r.rx
           /\ Step(t, [call[t] EXCEPT
                  !.nr = @ + 1, !.resp = r.resp, !.pos = "ret",
                  !.val = ps_err_getCurrent(
                              IF r.status = "VI_SUCCESS"
                              THEN atof(r.resp.line) ELSE @),
                  !.err = IF r.status = "VI_SUCCESS" THEN ERR_SUCCESS
                          ELSE ERR_OPERATION_FAILED])
    /\ UNCHANGED <<devOn, devVoltage>>

\* what turnOn returns at err_turnOn when isOpen failed: err as initialised
err_turnOn == ERR_SUCCESS

\* what turnOff returns at err_turnOff when isOpen failed: err as initialised
err_turnOff == ERR_SUCCESS

\* PowerSupply::turnOn, to its isOpen check
turnOn_check(t) ==
    /\ At(t, "turnOn", "entry")
    /\ Step(t, IF ~isOpen
               THEN NotConnected(call[t], err_turnOn)
               ELSE Connected(call[t]))
    /\ UNCHANGED devVars

\* turnOn that sends the command of turnOff
turnOn_send_off(t) ==
    /\ At(t, "turnOn", "checked")
    /\ \E s \in sendCommand(t, psCommandsAt("turnOff"), "") :
          /\ Wrote(s)
          /\ Step(t, AfterSend(t, s, "ret"))

\* PowerSupply::turnOn, its sendCommand
turnOn_send(t) ==
    /\ At(t, "turnOn", "checked")
    /\ \E s \in sendCommand(t, psCommandsAt("turnOn"), "") :
          /\ Wrote(s)
          /\ Step(t, AfterSend(t, s, "ret"))

\* PowerSupply::turnOff, to its isOpen check
turnOff_check(t) ==
    /\ At(t, "turnOff", "entry")
    /\ Step(t, IF ~isOpen
               THEN NotConnected(call[t], err_turnOff)
               ELSE Connected(call[t]))
    /\ UNCHANGED devVars

\* PowerSupply::turnOff, its sendCommand
turnOff_send(t) ==
    /\ At(t, "turnOff", "checked")
    /\ \E s \in sendCommand(t, psCommandsAt("turnOff"), "") :
          /\ Wrote(s)
          /\ Step(t, AfterSend(t, s, "ret"))

\* a step of thread t inside a command of the driver
Command(t) ==
    \/ isOn_check(t) \/ isOn_send(t) \/ isOn_read(t)
    \/ setVoltage_check(t) \/ setVoltage_send(t)
    \/ getVoltage_check(t) \/ getVoltage_send(t) \/ getVoltage_read(t)
    \/ getCurrent_check(t) \/ getCurrent_send(t) \/ getCurrent_read(t)
    \/ turnOn_check(t) \/ turnOn_send(t)
    \/ turnOff_check(t) \/ turnOff_send(t)

\* PowerSupply::open(arg), called by thread t
open_call(t) ==
    /\ At(t, "open", "entry")
    /\ \E o \in open(drv, call[t].arg) :
          /\ SetDrv(o.s)
          /\ call' = [call EXCEPT ![t] =
                 [@ EXCEPT !.pos = "ret", !.err = o.err, !.acq = o.acq,
                           !.before = instrument]]
    /\ uaf' = (uaf \/ psDeleted)
    /\ UNCHANGED <<psDeleted, devOn, devVoltage, devAnswers, winVars,
                   workerVars>>

\* PowerSupply::close(), called by thread t
close_call(t) ==
    /\ At(t, "close", "entry")
    /\ SetDrv(close(drv))
    /\ call' = [call EXCEPT ![t] =
           [@ EXCEPT !.pos = "ret", !.before = instrument]]
    /\ uaf' = (uaf \/ psDeleted)
    /\ UNCHANGED <<psDeleted, devOn, devVoltage, devAnswers, winVars,
                   workerVars>>

---------------------------------------------------------------------------
(* Worker: the background thread.  pPc is "notStarted" before                *)
(* workerThread->start(), "loop" at the head of the while loop, "call" in   *)
(* readCurrent, "sleep" in QThread::sleep, "exited" after the loop.  The    *)
(* window calls the driver by the names of its header (readCurrent,         *)
(* readVoltage, writeVoltage); drv_power_supply.cpp defines them as         *)
(* getCurrent, getVoltage and setVoltage.                                   *)

NoCycle == [read |-> FALSE, line |-> "", err |-> ERR_SUCCESS, old |-> 0,
            emitted |-> FALSE]

\* Worker::stop
stop == stopFlag' = TRUE

\* a loop that does not test stopFlag
mainWork_loop_noStop ==
    /\ pPc = "loop"
    /\ uaf' = (uaf \/ psDeleted)
    /\ IF ~isOpen
       THEN /\ pPc' = "sleep"
            /\ cyc' = [NoCycle EXCEPT
                          !.err = ERR_DEVICE_NOT_CONNECTED,
                          !.old = oldCurrent]
            /\ UNCHANGED call
       ELSE /\ pPc' = "call"
            /\ call' = [call EXCEPT
                           !["poller"] = Invoke("getCurrent", newCurrent)]
            /\ UNCHANGED cyc
    /\ UNCHANGED <<drvVars, devVars, psDeleted, devAnswers, winVars, stopFlag,
                   oldCurrent, newCurrent, emitted>>

\* a cycle that calls readCurrent without the isOpen check of mainWork
mainWork_loop_noOpenCheck ==
    /\ pPc = "loop"
    /\ IF stopFlag
       THEN /\ pPc' = "exited"
            /\ UNCHANGED <<call, cyc, uaf>>
       ELSE /\ uaf' = (uaf \/ psDeleted)
            /\ pPc' = "call"
            /\ call' = [call EXCEPT
                           !["poller"] = Invoke("getCurrent", newCurrent)]
            /\ UNCHANGED cyc
    /\ UNCHANGED <<drvVars, devVars, psDeleted, devAnswers, winVars, stopFlag,
                   oldCurrent, newCurrent, emitted>>

\* Worker::mainWork: the loop condition and the isOpen check of a cycle
mainWork_loop ==
    /\ pPc = "loop"
    /\ IF stopFlag
       THEN /\ pPc' = "exited"
            /\ UNCHANGED <<call, cyc, uaf>>
       ELSE /\ uaf' = (uaf \/ psDeleted)
            /\ IF ~isOpen
               THEN /\ pPc' = "sleep"
                    /\ cyc' = [NoCycle EXCEPT
                                  !.err = ERR_DEVICE_NOT_CONNECTED,
                                  !.old = oldCurrent]
                    /\ UNCHANGED call
               ELSE /\ pPc' = "call"
                    /\ call' = [call EXCEPT
                                   !["poller"] = Invoke("getCurrent", newCurrent)]
                    /\ UNCHANGED cyc
    /\ UNCHANGED <<drvVars, devVars, psDeleted, devAnswers, winVars, stopFlag,
                   oldCurrent, newCurrent, emitted>>

\* a cycle that leaves the loop when readCurrent failed
mainWork_sample_exitOnError ==
    /\ pPc = "call"
    /\ call["poller"].pos = "ret"
    /\ LET c == call["poller"]
           changed == c.err = ERR_SUCCESS /\ c.val # oldCurrent
       IN  /\ newCurrent' = c.val
           /\ oldCurrent' = IF changed THEN c.val ELSE oldCurrent
           /\ emitted' = IF changed /\ Len(emitted) < MaxEmitted
                         THEN Append(emitted, c.val) ELSE emitted
           /\ cyc' = [read |-> c.resp.by # "none", line |-> c.resp.line,
                      err |-> c.err, old |-> oldCurrent, emitted |-> changed]
           /\ pPc' = IF c.err # ERR_SUCCESS THEN "exited" ELSE "sleep"
    /\ call' = [call EXCEPT !["poller"] = Idle]
    /\ UNCHANGED <<drvVars, devVars, psDeleted, devAnswers, winVars, stopFlag,
                   uaf>>

\* Worker::mainWork: from the return of readCurrent to the sleep
mainWork_sample ==
    /\ pPc = "call"
    /\ call["poller"].pos = "ret"
    /\ LET c == call["poller"]
           changed == c.err = ERR_SUCCESS /\ c.val # oldCurrent
       IN  /\ newCurrent' = c.val
           /\ oldCurrent' = IF changed THEN c.val ELSE oldCurrent
           /\ emitted' = IF changed /\ Len(emitted) < MaxEmitted
                         THEN Append(emitted, c.val) ELSE emitted
           /\ cyc' = [read |-> c.resp.by # "none", line |-> c.resp.line,
                      err |-> c.err, old |-> oldCurrent, emitted |-> changed]
    /\ call' = [call EXCEPT !["poller"] = Idle]
    /\ pPc' = "sleep"
    /\ UNCHANGED <<drvVars, devVars, psDeleted, devAnswers, winVars, stopFlag,
                   uaf>>

\* a sleep after which the cycle starts without the test of stopFlag
mainWork_sleep_skipsLoopHead ==
    /\ pPc = "sleep"
    /\ pPc' = "call"
    /\ call' = [call EXCEPT !["poller"] = Invoke("getCurrent", newCurrent)]
    /\ cyc' = NoCycle
    /\ UNCHANGED <<drvVars, devVars, psDeleted, devAnswers, winVars,
                   stopFlag, oldCurrent, newCurrent, emitted, uaf>>

\* Worker::mainWork: QThread::sleep(sampleTime) returns
mainWork_sleep ==
    /\ pPc = "sleep"
    /\ pPc' = "loop"
    /\ cyc' = NoCycle
    /\ UNCHANGED <<drvVars, devVars, psDeleted, devAnswers, winVars, call,
                   stopFlag, oldCurrent, newCurrent, emitted, uaf>>

mainWork == mainWork_loop \/ mainWork_sample \/ mainWork_sleep

---------------------------------------------------------------------------
(* MainWindow: the GUI thread.  fgH is the handler it executes ("idle" in   *)
(* the event loop, "closed" once the close event was accepted, "gone" after *)
(* the destructor) and fgPc the driver call the handler waits for.          *)

Ret == call["fg"].pos = "ret"

\* the GUI thread goes on in handler h at position pc, calling c
Goto(h, pc, c) ==
    /\ fgH' = h
    /\ fgPc' = pc
    /\ call' = [call EXCEPT !["fg"] = c]

\* open is not started with MaxLive sessions live
MayOpen == Cardinality(live) + 2 <= MaxLive

\* MainWindow::MainWindow
MainWindow ==
    /\ fgH = "ctor"
    /\ \/ /\ fgPc = "new"
          /\ \E p \in Ports : \E s \in PowerSupply(drv, p) : SetDrv(s)
          /\ Goto("ctor", "isOn", Invoke("isOn", 0))
          /\ UNCHANGED <<pPc, lastSavedVoltage>>
       \/ /\ fgPc = "isOn" /\ Ret
          /\ Goto("ctor", "writeVoltage", Invoke("setVoltage", lastSavedVoltage))
          /\ UNCHANGED <<drvVars, rx, pPc, lastSavedVoltage>>
       \/ /\ fgPc = "writeVoltage" /\ Ret
          /\ Goto("idle", "", Idle)
          /\ pPc' = "loop"
          /\ UNCHANGED <<drvVars, rx, lastSavedVoltage>>
    /\ UNCHANGED <<psDeleted, devOn, devVoltage, devAnswers, threadDeleted,
                   uaf, stopFlag, oldCurrent, newCurrent, emitted, cyc>>

\* MainWindow::on_voltage_valueChanged
on_voltage_valueChanged ==
    /\ \/ /\ fgH = "idle"
          /\ \E v \in Voltages :
                Goto("voltage", "writeVoltage", Invoke("setVoltage", v))
          /\ UNCHANGED lastSavedVoltage
       \/ /\ fgH = "voltage" /\ Ret
          /\ IF call["fg"].err # ERR_SUCCESS
             THEN \* ui->voltage->setValue(0.0) signals valueChanged again
                  \* when the value was not 0.0
                  /\ IF call["fg"].val # 0
                     THEN Goto("voltage", "writeVoltage", Invoke("setVoltage", 0))
                     ELSE Goto("idle", "", Idle)
                  /\ UNCHANGED lastSavedVoltage
             ELSE /\ lastSavedVoltage' = call["fg"].val
                  /\ Goto("idle", "", Idle)
    /\ UNCHANGED <<drvVars, devVars, psDeleted, devAnswers, threadDeleted, uaf,
                   workerVars>>

\* MainWindow::on_buttonPower_clicked
on_buttonPower_clicked ==
    /\ \/ /\ fgH = "idle"
          /\ IF ~isOpen THEN Goto("idle", "", Idle)
             ELSE Goto("power", "isOn", Invoke("isOn", 0))
       \/ /\ fgH = "power" /\ fgPc = "isOn" /\ Ret
          /\ IF call["fg"].err # ERR_SUCCESS THEN Goto("idle", "", Idle)
             ELSE IF call["fg"].state
             THEN Goto("power", "turnOff", Invoke("turnOff", 0))
             ELSE Goto("power", "turnOn", Invoke("turnOn", 0))
       \/ /\ fgH = "power" /\ fgPc = "turnOff" /\ Ret
          /\ Goto("idle", "", Idle)
       \/ /\ fgH = "power" /\ fgPc = "turnOn" /\ Ret
          /\ IF call["fg"].err # ERR_SUCCESS THEN Goto("idle", "", Idle)
             ELSE Goto("power", "writeVoltage",
                       Invoke("setVoltage", lastSavedVoltage))
       \/ /\ fgH = "power" /\ fgPc = "writeVoltage" /\ Ret
          /\ Goto("idle", "", Idle)
    /\ UNCHANGED <<drvVars, devVars, psDeleted, devAnswers, lastSavedVoltage,
                   threadDeleted, uaf, workerVars>>

\* a handler that opens the port entered without comparing it with the open one
on_port_editingFinished_noCompare ==
    /\ \/ /\ fgH = "idle"
          /\ \E p \in Ports :
                IF p = "" THEN Goto("portEdit", "err_open_port", Invoke("close", 0))
                ELSE /\ MayOpen
                     /\ Goto("portEdit", "open", InvokeOpen(p))
       \/ /\ fgH = "portEdit" /\ fgPc = "open" /\ Ret
          /\ IF call["fg"].err # ERR_SUCCESS
             THEN Goto("portEdit", "err_open_port", Invoke("close", 0))
             ELSE Goto("portEdit", "isOn", Invoke("isOn", 0))
       \/ /\ fgH = "portEdit" /\ fgPc = "isOn" /\ Ret
          /\ IF call["fg"].err # ERR_SUCCESS
             THEN Goto("portEdit", "err_open_port", Invoke("close", 0))
             ELSE IF call["fg"].state
             THEN Goto("portEdit", "readVoltage", Invoke("getVoltage", 0))
             ELSE Goto("idle", "", Idle)
       \/ /\ fgH = "portEdit" /\ fgPc = "readVoltage" /\ Ret
          /\ IF call["fg"].err # ERR_SUCCESS
             THEN Goto("portEdit", "err_open_port", Invoke("close", 0))
             ELSE Goto("idle", "", Idle)
       \/ /\ fgH = "portEdit" /\ fgPc = "err_open_port" /\ Ret
          /\ Goto("idle", "", Idle)
       \/ \* the return of "port is already open"
          /\ fgH = "portEdit" /\ fgPc = "alreadyOpen"
          /\ Goto("idle", "", Idle)
    /\ UNCHANGED <<drvVars, devVars, psDeleted, devAnswers, lastSavedVoltage,
                   threadDeleted, uaf, workerVars>>

\* MainWindow::on_port_editingFinished
on_port_editingFinished ==
    /\ \/ /\ fgH = "idle"
          /\ \E p \in Ports :
                IF p = "" THEN Goto("portEdit", "err_open_port", Invoke("close", 0))
                ELSE IF port = p /\ isOpen
                THEN Goto("portEdit", "alreadyOpen", Idle)
                ELSE /\ MayOpen
                     /\ Goto("portEdit", "open", InvokeOpen(p))
       \/ /\ fgH = "portEdit" /\ fgPc = "open" /\ Ret
          /\ IF call["fg"].err # ERR_SUCCESS
             THEN Goto("portEdit", "err_open_port", Invoke("close", 0))
             ELSE Goto("portEdit", "isOn", Invoke("isOn", 0))
       \/ /\ fgH = "portEdit" /\ fgPc = "isOn" /\ Ret
          /\ IF call["fg"].err # ERR_SUCCESS
             THEN Goto("portEdit", "err_open_port", Invoke("close", 0))
             ELSE IF call["fg"].state
             THEN Goto("portEdit", "readVoltage", Invoke("getVoltage", 0))
             ELSE Goto("idle", "", Idle)
       \/ /\ fgH = "portEdit" /\ fgPc = "readVoltage" /\ Ret
          /\ IF call["fg"].err # ERR_SUCCESS
             THEN Goto("portEdit", "err_open_port", Invoke("close", 0))
             ELSE Goto("idle", "", Idle)
       \/ /\ fgH = "portEdit" /\ fgPc = "err_open_port" /\ Ret
          /\ Goto("idle", "", Idle)
       \/ \* the return of "port is already open"
          /\ fgH = "portEdit" /\ fgPc = "alreadyOpen"
          /\ Goto("idle", "", Idle)
    /\ UNCHANGED <<drvVars, devVars, psDeleted, devAnswers, lastSavedVoltage,
                   threadDeleted, uaf, workerVars>>

\* MainWindow::closeEvent
closeEvent ==
    /\ \/ /\ fgH = "idle"
          /\ Goto("closeEvent", "close", Invoke("close", 0))
          /\ UNCHANGED <<stopFlag, threadDeleted>>
       \/ /\ fgH = "closeEvent" /\ fgPc = "close" /\ Ret
          /\ stop
          /\ Goto("closeEvent", "wait", Idle)
          /\ UNCHANGED threadDeleted
       \/ \* workerThread->wait() returns once mainWork has returned
          /\ fgH = "closeEvent" /\ fgPc = "wait"
          /\ pPc = "exited"
          /\ threadDeleted' = TRUE
          /\ Goto("closed", "", Idle)
          /\ UNCHANGED stopFlag
    /\ UNCHANGED <<drvVars, devVars, psDeleted, devAnswers, lastSavedVoltage,
                   uaf, pPc, oldCurrent, newCurrent, emitted, cyc>>

\* MainWindow::~MainWindow
MainWindow_dtor ==
    /\ \/ /\ fgH \in {"idle", "closed"}
          /\ Goto("dtor", "close", Invoke("close", 0))
          /\ UNCHANGED <<drvVars, rx, psDeleted, uaf>>
       \/ \* delete powerSupply runs ~PowerSupply, which closes again; then
          \* workerThread->quit()
          /\ fgH = "dtor" /\ fgPc = "close" /\ Ret
          /\ SetDrv(close(drv))
          /\ psDeleted' = TRUE
          /\ uaf' = (uaf \/ threadDeleted)
          /\ Goto("dtor", "wait", Idle)
       \/ \* workerThread->wait() returns once mainWork has returned
          /\ fgH = "dtor" /\ fgPc = "wait"
          /\ pPc = "exited" \/ threadDeleted
          /\ Goto("gone", "", Idle)
          /\ UNCHANGED <<drvVars, rx, psDeleted, uaf>>
    /\ UNCHANGED <<devOn, devVoltage, devAnswers, lastSavedVoltage,
                   threadDeleted, workerVars>>

---------------------------------------------------------------------------
(* The application *)

Uninitialised ==
    {[instrument |-> i, defaultRM |-> d, port |-> "", live |-> {},
      rx |-> <<>>] : i \in {VI_NULL, Garbage}, d \in {VI_NULL, Garbage}}

Init ==
    /\ \E s \in Uninitialised :
          /\ instrument = s.instrument
          /\ defaultRM = s.defaultRM
          /\ port = s.port
          /\ live = s.live
          /\ rx = s.rx
    /\ psDeleted = FALSE
    /\ devOn \in BOOLEAN
    /\ devVoltage = to_string(0)
    /\ devAnswers \in BOOLEAN
    /\ call = [t \in Threads |-> Idle]
    /\ fgH = "ctor"
    /\ fgPc = "new"
    /\ lastSavedVoltage \in Voltages
    /\ threadDeleted = FALSE
    /\ uaf = FALSE
    /\ pPc = "notStarted"
    /\ stopFlag = FALSE
    /\ oldCurrent = 0
    /\ newCurrent = 0
    /\ emitted = <<>>
    /\ cyc = NoCycle

Next ==
    \/ \E t \in Threads : Command(t)
    \/ \E t \in Threads : open_call(t)
    \/ \E t \in Threads : close_call(t)
    \/ mainWork
    \/ MainWindow
    \/ on_voltage_valueChanged
    \/ on_buttonPower_clicked
    \/ on_port_editingFinished
    \/ closeEvent
    \/ MainWindow_dtor

Spec == Init /\ [][Next]_vars

---------------------------------------------------------------------------
(* The driver under any caller: a foreground client that calls the public   *)
(* operations of PowerSupply in any order, one at a time, beside the        *)
(* worker thread.                                                           *)

Commands == {"isOn", "setVoltage", "getVoltage", "getCurrent", "turnOn",
             "turnOff"}

\* the client calls a command of the driver
client_command ==
    /\ fgH = "api"
    /\ call["fg"].pos = "idle"
    /\ \E o \in Commands : \E v \in Voltages :
          Goto("api", o, Invoke(o, IF o = "setVoltage" THEN v ELSE 0))
    /\ UNCHANGED <<drvVars, devVars, psDeleted, devAnswers, lastSavedVoltage,
                   threadDeleted, uaf, workerVars>>

\* the client calls open(p)
client_open ==
    /\ fgH = "api"
    /\ call["fg"].pos = "idle"
    /\ \E p \in Ports :
          /\ (p = "" \/ Len(p) < 4) \/ MayOpen
          /\ Goto("api", "open", InvokeOpen(p))
    /\ UNCHANGED <<drvVars, devVars, psDeleted, devAnswers, lastSavedVoltage,
                   threadDeleted, uaf, workerVars>>

\* the client calls close()
client_close ==
    /\ fgH = "api"
    /\ call["fg"].pos = "idle"
    /\ Goto("api", "close", Invoke("close", 0))
    /\ UNCHANGED <<drvVars, devVars, psDeleted, devAnswers, lastSavedVoltage,
                   threadDeleted, uaf, workerVars>>

\* the client, at the successful return of turnOn, turnOff or setVoltage,
\* calls the query of what it has set at once
client_then ==
    /\ fgH = "api"
    /\ Ret
    /\ call["fg"].err = ERR_SUCCESS
    /\ \/ /\ fgPc = "turnOn"
          /\ Goto("api", "isOn_after_turnOn", Invoke("isOn", 0))
       \/ /\ fgPc = "turnOff"
          /\ Goto("api", "isOn_after_turnOff", Invoke("isOn", 0))
       \/ /\ fgPc = "setVoltage"
          /\ Goto("api", "getVoltage_after_setVoltage", Invoke("getVoltage", 0))
    /\ UNCHANGED <<drvVars, devVars, psDeleted, devAnswers, lastSavedVoltage,
                   threadDeleted, uaf, workerVars>>

\* the client's call returns
client_return ==
    /\ fgH = "api"
    /\ Ret
    /\ Goto("api", "", Idle)
    /\ UNCHANGED <<drvVars, devVars, psDeleted, devAnswers, lastSavedVoltage,
                   threadDeleted, uaf, workerVars>>

\* the client calls Worker::stop
client_stop ==
    /\ fgH = "api"
    /\ ~stopFlag
    /\ stop
    /\ UNCHANGED <<drvVars, devVars, psDeleted, devAnswers, call, winVars, uaf,
                   pPc, oldCurrent, newCurrent, emitted, cyc>>

\* a PowerSupply constructed on any port, the worker started on it
DrvInit ==
    /\ \E u \in Uninitialised : \E p \in Ports : \E s \in PowerSupply(u, p) :
          /\ instrument = s.instrument
          /\ defaultRM = s.defaultRM
          /\ port = s.port
          /\ live = s.live
          /\ rx = s.rx
    /\ psDeleted = FALSE
    /\ devOn \in BOOLEAN
    /\ devVoltage = to_string(0)
    /\ devAnswers \in BOOLEAN
    /\ call = [t \in Threads |-> Idle]
    /\ fgH = "api"
    /\ fgPc = ""
    /\ lastSavedVoltage = 0
    /\ threadDeleted = FALSE
    /\ uaf = FALSE
    /\ pPc = "loop"
    /\ stopFlag = FALSE
    /\ oldCurrent = 0
    /\ newCurrent = 0
    /\ emitted = <<>>
    /\ cyc = NoCycle

DrvNext ==
    \/ \E t \in Threads : Command(t)
    \/ \E t \in Threads : open_call(t)
    \/ \E t \in Threads : close_call(t)
    \/ mainWork
    \/ client_command
    \/ client_open
    \/ client_close
    \/ client_then
    \/ client_return
    \/ client_stop

DrvSpec == DrvInit /\ [][DrvNext]_vars

\* the steps of the worker thread inside readCurrent
readCurrent ==
    \/ getCurrent_check("poller")
    \/ getCurrent_send("poller")
    \/ getCurrent_read("poller")

\* the steps of the worker thread: mainWork and the call it makes
workerStep == mainWork \/ readCurrent

\* the steps of the GUI thread in ~MainWindow
destructorStep == MainWindow_dtor \/ close_call("fg")

\* the application with the worker thread and the destructor scheduled
\* fairly: both run on OS threads, and close() and delete return
FairSpec == Spec /\ WF_vars(workerStep) /\ WF_vars(destructorStep)

\* the worker beside a foreground that opens and closes the session and
\* calls stop()
WorkerNext ==
    \/ mainWork
    \/ readCurrent
    \/ open_call("fg")
    \/ close_call("fg")
    \/ client_open
    \/ client_close
    \/ client_return
    \/ client_stop

\* the worker scheduled fairly: its thread is an OS thread of its own,
\* QThread::sleep returns after sampleTime and viRead after its time-out at
\* the latest
FairWorkerSpec == DrvInit /\ [][WorkerNext]_vars /\ WF_vars(workerStep)

---------------------------------------------------------------------------
(* Properties *)

\* thread t has written a query and not yet read its response
InFlight(t) == call[t].pos = "sent"

\* thread t is at the return of a command of the driver
Returned(t) == call[t].op \in Commands /\ call[t].pos = "ret"

\* the call of thread t read a response line
ReadLine(t) == call[t].resp.by # "none"

\* C1: in every reachable state at most one command/response exchange
\* (command written, its response not yet read) is in flight on the session,
\* however the foreground operations and the worker's cycles interleave.
C1_OneExchangeInFlight ==
    Cardinality({t \in Threads : InFlight(t)}) <= 1

\* C2: a foreground read-voltage call never reads the response to the worker's
\* read-current command, and the worker never reads the response to the
\* foreground's read-voltage command: each reads the response to its own
\* command.
C2_ResponseMatchesRequest ==
    /\ (call["fg"].op = "getVoltage" /\ ReadLine("fg"))
          => call["fg"].resp.by = "fg" /\ call["fg"].resp.op = "getVoltage"
    /\ (call["poller"].op = "getCurrent" /\ ReadLine("poller"))
          => ~(call["poller"].resp.by = "fg"
               /\ call["poller"].resp.op = "getVoltage")

\* C3: every command of the driver (turnOn, turnOff, isOn, setVoltage,
\* getVoltage, getCurrent) called while isOpen fails returns
\* ERR_DEVICE_NOT_CONNECTED and has made no viWrite.
C3_NotConnectedWhenClosed ==
    \A t \in Threads :
        (Returned(t) /\ ~call[t].wasOpen)
            => call[t].err = ERR_DEVICE_NOT_CONNECTED /\ call[t].nw = 0

\* C4: a cycle of the worker on an open session whose read succeeded emits a
\* change notification exactly when the reading differs from the
\* last-observed value, and then the notification carries that reading.
C4_NotifyExactlyOnChange ==
    (pPc = "sleep" /\ cyc.read)
        => /\ cyc.emitted <=> (atof(cyc.line) # cyc.old)
           /\ cyc.emitted =>
                 /\ emitted # <<>>
                 /\ emitted[Len(emitted)] = atof(cyc.line)

\* C5: on both shutdown paths (closeEvent, ~MainWindow) the worker has left
\* its loop before close() is executed: the shutdown's close() has never
\* returned while the worker is still running or inside an exchange.
C5_StopBeforeClose ==
    (fgH \in {"closeEvent", "dtor"} /\ fgPc = "close" /\ Ret)
        => pPc = "exited"

\* C6: on an open session where the write and the read both succeed,
\* getCurrent (and getVoltage) returns success and the numeric value of the
\* response line it read.
C6_ReadReturnsDeviceValue ==
    \A t \in Threads :
        (Returned(t) /\ call[t].op \in {"getCurrent", "getVoltage"}
                     /\ ReadLine(t))
            => /\ call[t].err = ERR_SUCCESS
               /\ call[t].val = atof(call[t].resp.line)

\* the step is one of open() or close(): a call of them by a thread, the
\* open() of the constructor, or the close() of ~PowerSupply
SessionStep ==
    \/ \E t \in Threads :
          /\ call[t].op \in {"open", "close"}
          /\ call[t].pos = "entry"
          /\ call'[t].pos = "ret"
    \/ fgH = "ctor" /\ fgPc = "new"
    \/ fgH = "dtor" /\ fgPc = "close"

\* C7: a command that fails (write failure, read failure, unparsable
\* response) leaves the session as it was, open or closed; the open/closed
\* state changes only in a step of open() or close().
C7_FailedCommandKeepsSession ==
    [][ /\ \A t \in Threads :
              (/\ call[t].op \in Commands
               /\ call[t].pos # "ret"
               /\ call'[t].pos = "ret"
               /\ call'[t].err # ERR_SUCCESS)
                  => /\ instrument' = instrument
                     /\ defaultRM' = defaultRM
                     /\ port' = port
                     /\ live' = live
        /\ (isOpen' # isOpen) => SessionStep ]_vars

\* a command has failed on an open session, which is still open
C7_Witness ==
    \E t \in Threads :
        /\ Returned(t)
        /\ call[t].wasOpen
        /\ call[t].err = ERR_OPERATION_FAILED
        /\ instrument \in live

\* C8: open(p) with p empty or shorter than 4 characters returns
\* ERR_DEVICE_NOT_CONNECTED, acquires no session and leaves isOpen false,
\* whatever the session was before the call.
C8_ShortPortFails ==
    \A t \in Threads :
        (At(t, "open", "ret") /\ Len(call[t].arg) < 4)
            => /\ call[t].err = ERR_DEVICE_NOT_CONNECTED
               /\ call[t].acq = {}
               /\ ~isOpen

\* open() with a short, non-empty port has returned on a session that was
\* open before the call
C8_Witness ==
    /\ At("fg", "open", "ret")
    /\ call["fg"].arg = "COM"
    /\ call["fg"].before \notin {VI_NULL, Garbage}

\* C9: when open(p) fails at any step, every session the call acquired has
\* been released and the session ends fully closed: no instrument handle, no
\* resource-manager handle, empty port; the call returns failure.
C9_FailedOpenFullyClosed ==
    \A t \in Threads :
        (At(t, "open", "ret") /\ call[t].err # ERR_SUCCESS)
            => /\ call[t].err = ERR_DEVICE_NOT_CONNECTED
               /\ instrument = VI_NULL
               /\ defaultRM = VI_NULL
               /\ port = ""
               /\ call[t].acq \cap live = {}

\* open() of a well-formed port has failed after it had acquired the
\* resource manager
C9_Witness ==
    /\ At("fg", "open", "ret")
    /\ call["fg"].err # ERR_SUCCESS
    /\ call["fg"].acq # {}

\* C10: after a successful open isOpen is true; after close() isOpen is
\* false; close() is idempotent: on the session close() left, a further
\* close() releases nothing and leaves the state as it is.
C10_OpenCloseIdempotent ==
    \A t \in Threads :
        /\ (At(t, "open", "ret") /\ call[t].err = ERR_SUCCESS)
              => isOpen /\ instrument \in live
        /\ At(t, "close", "ret")
              => /\ ~isOpen
                 /\ close(drv) = drv

\* close() has returned on a session that was already closed, while handles
\* an earlier open() on an open session had overwritten are still live: the
\* second close() had something it could have released, and released nothing
C10_Witness ==
    /\ At("fg", "close", "ret")
    /\ call["fg"].before = VI_NULL
    /\ live # {}

\* the PowerSupply object exists: its constructor has run and its destructor
\* has not
Constructed == ~psDeleted /\ ~(fgH = "ctor" /\ fgPc = "new")

\* C11: from construction onward the instrument handle is a valid session
\* exactly when isOpen holds, and port is empty whenever the session is
\* closed; a PowerSupply constructed with an invalid or unopenable port
\* included.
C11_HandleValidIffOpen ==
    Constructed
        => /\ isOpen <=> instrument \in live
           /\ ~isOpen => port = ""

\* the client's isOn that followed its successful command o has returned
\* success
IsOnAfter(o) ==
    /\ fgH = "api"
    /\ fgPc = o
    /\ Ret
    /\ call["fg"].err = ERR_SUCCESS

C13_VoltageRoundTrip ==
    /\ (/\ fgH = "api"
        /\ At("fg", "setVoltage", "ret")
        /\ call["fg"].wasOpen
        /\ call["fg"].err = ERR_SUCCESS)
          => atof(devVoltage) = call["fg"].val
    /\ (/\ fgH = "api"
        /\ fgPc = "getVoltage_after_setVoltage"
        /\ Ret
        /\ call["fg"].nr > 0)
          => /\ call["fg"].err = ERR_SUCCESS
             /\ call["fg"].val = atof(devVoltage)

C15_StopObservedAtLoopHead ==
    [][ /\ (pPc = "loop" /\ stopFlag /\ pPc' # "loop")
              => /\ pPc' = "exited"
                 /\ call'["poller"] = call["poller"]
        /\ pPc = "exited" => pPc' = "exited"
        /\ stopFlag => emitted' = emitted
        /\ stopFlag => stopFlag'
      ]_vars

\* stop() was called and the worker has left its loop
C15_Witness ==
    /\ stopFlag
    /\ pPc = "exited"
    /\ fgH = "api"

\* atof converts some prefix of s: after white space and a sign there is a
\* digit, or a point followed by a digit
IsNumber(s) ==
    LET a == SkipSpace(s, 1)
        b == IF a <= Len(s) /\ Char(s, a) \in {"-", "+"} THEN a + 1 ELSE a
        c == DigitsEnd(s, b)
        d == IF c <= Len(s) /\ Char(s, c) = "." THEN DigitsEnd(s, c + 1) ELSE c
    IN  c > b \/ d > c + 1

\* C16: when the response getVoltage or getCurrent read does not parse as a
\* number, the call yields 0.0 and an error: it does not return ERR_SUCCESS.
C16_UnparsableFlagsError ==
    \A t \in Threads :
        (/\ Returned(t)
         /\ call[t].op \in {"getVoltage", "getCurrent"}
         /\ ReadLine(t)
         /\ ~IsNumber(call[t].resp.line))
            => /\ call[t].val = 0
               /\ call[t].err # ERR_SUCCESS

\* C17: isOn on an open session whose write and read succeed returns
\* (ERR_SUCCESS, true) for a response that starts with '1', (ERR_SUCCESS,
\* false) for one that starts with '0', and ERR_OPERATION_FAILED with state
\* false for any other; not connected, a failed write and a failed read give
\* state false with their error.
C17_PowerStateParsing ==
    \A t \in Threads :
        (Returned(t) /\ call[t].op = "isOn")
            => LET c == call[t]
                   first == Char(c.resp.line, 1)
               IN  IF ~c.wasOpen
                   THEN c.err = ERR_DEVICE_NOT_CONNECTED /\ ~c.state
                        /\ c.nw = 0
                   ELSE IF ~ReadLine(t)
                   THEN c.err = ERR_OPERATION_FAILED /\ ~c.state
                   ELSE IF first = "1" THEN c.err = ERR_SUCCESS /\ c.state
                   ELSE IF first = "0" THEN c.err = ERR_SUCCESS /\ ~c.state
                   ELSE c.err = ERR_OPERATION_FAILED /\ ~c.state

\* isOn has read a response that starts with neither '0' nor '1'
C17_Witness ==
    \E t \in Threads :
        /\ Returned(t)
        /\ call[t].op = "isOn"
        /\ ReadLine(t)
        /\ Char(call[t].resp.line, 1) \notin {"0", "1"}
        /\ call[t].err = ERR_OPERATION_FAILED

\* the device syntax of the operation, by the fixed mnemonic table
Mnemonic(o) ==
    CASE o = "setVoltage" -> "VOLT"
      [] o = "getVoltage" -> "MEAS:VOLT?"
      [] o = "getCurrent" -> "MEAS:CURR?"
      [] o = "isOn"       -> "OUTP?"
      [] o = "turnOn"     -> "OUTP ON"
      [] o = "turnOff"    -> "OUTP OFF"

\* the line the call c is to write: the mnemonic, then a space and the
\* parameter when there is one, then the line feed
MnemonicLine(c) ==
    IF c.op = "setVoltage"
    THEN Mnemonic(c.op) \o " " \o to_string(c.val) \o "\n"
    ELSE Mnemonic(c.op) \o "\n"

\* C18: every command writes the line built from its mnemonic: setVoltage(v)
\* "VOLT <v>\n", getVoltage "MEAS:VOLT?\n", getCurrent "MEAS:CURR?\n", isOn
\* "OUTP?\n", turnOn "OUTP ON\n", turnOff "OUTP OFF\n".
C18_WritesMnemonicLine ==
    \A t \in Threads :
        (call[t].op \in Commands /\ call[t].nw > 0)
            => call[t].sent = MnemonicLine(call[t])

\* what an open request leaves alone when it is a no-op
SessionUnchanged ==
    /\ instrument' = instrument
    /\ defaultRM' = defaultRM
    /\ port' = port
    /\ live' = live
    /\ rx' = rx
    /\ devOn' = devOn
    /\ devVoltage' = devVoltage
    /\ call'["fg"] = Idle

C20_ClosedSessionSkipsCycle ==
    [][ /\ (pPc = "loop" /\ ~stopFlag /\ ~isOpen /\ pPc' # "loop")
              => /\ pPc' = "sleep"
                 /\ call'["poller"] = Idle
                 /\ emitted' = emitted
                 /\ oldCurrent' = oldCurrent
                 /\ rx' = rx
        /\ (pPc = "sleep" /\ pPc' # "sleep") => pPc' = "loop"
      ]_vars

\* the worker sleeps after a cycle it skipped, and the session has been
\* opened since: the next cycle samples
C20_Witness ==
    /\ pPc = "sleep"
    /\ cyc.err = ERR_DEVICE_NOT_CONNECTED
    /\ ~cyc.read
    /\ instrument \in live
    /\ ~stopFlag

\* C21: with the worker scheduled fairly, once stop() has set stopFlag the
\* worker leaves its loop; it starts no call of readCurrent after stop(), so
\* it ends at most the cycle that was in flight, its read and its sleep.
C21_StopEventuallyExits ==
    /\ stopFlag ~> (pPc = "exited")
    /\ [][(stopFlag /\ pPc' = "call") => pPc = "call"]_vars

\* stop() has been called while readCurrent has written its command and not
\* yet read
C21_Witness ==
    /\ stopFlag
    /\ pPc = "call"
    /\ InFlight("poller")

Queries == {"isOn", "getVoltage", "getCurrent"}

\* C22: a call of isOn, getVoltage or getCurrent on an open session makes
\* exactly one viWrite and at most one viRead: it answers from no cache (a
\* success has read a response) and writes no command again after a failure;
\* turnOn, turnOff and setVoltage make exactly one viWrite and no viRead.
C22_OneWriteAtMostOneRead ==
    \A t \in Threads :
        /\ call[t].nw <= 1
        /\ call[t].nr <= 1
        /\ (Returned(t) /\ call[t].wasOpen)
              => /\ call[t].nw = 1
                 /\ call[t].op \in Queries
                       => (call[t].err = ERR_SUCCESS => call[t].nr = 1)
                 /\ call[t].op \notin Queries => call[t].nr = 0

\* getVoltage has returned a failure of its read, after one write and one
\* read
C22_Witness ==
    /\ Returned("fg")
    /\ call["fg"].op = "getVoltage"
    /\ call["fg"].wasOpen
    /\ call["fg"].err = ERR_OPERATION_FAILED
    /\ call["fg"].nw = 1
    /\ call["fg"].nr = 1

\* C23: after any sequence of open() and close() the PowerSupply holds every
\* VISA session that was acquired and not released, at most one resource
\* manager and one instrument: a session an open() acquired is released by a
\* later close() or failed open(), also when open() is called on a session
\* that is open.
C23_NoLeakedSession ==
    Constructed
        => /\ live \subseteq {instrument, defaultRM}
           /\ Cardinality(live) <= 2

\* the step is a viWrite or a viRead of the worker's readCurrent
WorkerTransfer ==
    \/ call'["poller"].nw > call["poller"].nw
    \/ call'["poller"].nr > call["poller"].nr

\* C24: however a close() of the foreground (its own, or that of a failed
\* open or of a failed port edit) interleaves with a cycle of the worker, the
\* worker makes no viWrite and no viRead on a null instrument handle: between
\* the isOpen check of its readCurrent and the write and read that follow it
\* the session is not closed.
C24_NoTransferOnClosedHandle ==
    [][ /\ WorkerTransfer => instrument # VI_NULL
        /\ (call["poller"].pos \in {"checked", "sent"}
               /\ call'["poller"] = call["poller"])
              => instrument' # VI_NULL
      ]_vars

\* the step is one in which the worker uses the PowerSupply: the isOpen test
\* of mainWork, or a step of its readCurrent
WorkerUsesPowerSupply ==
    \/ pPc = "loop" /\ ~stopFlag /\ pPc' # "loop"
    \/ pPc = "call" /\ pPc' = "call" /\ call'["poller"] # call["poller"]

\* C25: ~MainWindow terminates while the worker thread runs: its wait for the
\* worker thread returns, and the worker does not use the PowerSupply after
\* the destructor has deleted it.
C25_DestructorTerminates ==
    /\ (fgH = "dtor") ~> (fgH = "gone")
    /\ [][psDeleted => ~WorkerUsesPowerSupply]_vars

====
